---------------------------- MODULE Spec2Model ----------------------------
(***************************************************************************)
(* A model of oclpy: the gating engine (gate.py, interpolation.py) and the *)
(* matrix conditioning utilities of library.py.                            *)
(*                                                                         *)
(* Numbers.  The code works on floats; the model works on integers.  The   *)
(* gating code only ever COMPARES sample values, query values and the two  *)
(* sentinels 0 and 1e99, so an order-preserving choice of integers is      *)
(* exact for it.  Huge stands for the sentinel 1e99: it is larger than     *)
(* every sample y of the model, and queries reach Huge and Huge + 1.       *)
(***************************************************************************)
EXTENDS Integers, Sequences, FiniteSets, TLC

VARIABLES
    df,              \* the sample table handed to Gate / GateSector
    Default_return,  \* the `default` argument of both constructors
    gate,            \* the Gate object (or the outcome of its constructor)
    sector,          \* the GateSector object (or the outcome of its constructor)
    call,            \* the last __call__ made: its arguments and what it returned
    matrix,          \* the matrix handed to a function of library.py
    window_size,     \* fill_negative's window_size
    Ex_array,        \* cut_diagonal's Ex_array (one energy per row)
    Eg_array,        \* cut_diagonal's Eg_array (one energy per column)
    E1,              \* cut_diagonal's first point, <<Ex1, Eg1>>
    E2,              \* cut_diagonal's second point, <<Ex2, Eg2>>
    E0_array_in,     \* interpolate_matrix_2D's source row axis
    E1_array_in,     \* interpolate_matrix_2D's source column axis
    E0_array_out,    \* interpolate_matrix_2D's target row axis
    E1_array_out,    \* interpolate_matrix_2D's target column axis
    matrix_out,      \* the matrix the function returned
    error,           \* the exception the function raised ("" when it returned)
    done,            \* the function of library.py that has ended ("" before)
    yielded,         \* the pairs diagonal_elements has yielded, in order
    data2d           \* the Data2D object (or the outcome of its constructor)

gateVars == <<df, Default_return, gate, sector, call>>

fillVars == <<window_size>>

cutVars == <<Ex_array, Eg_array, E1, E2>>

interpVars == <<E0_array_in, E1_array_in, E0_array_out, E1_array_out>>

matVars ==
    <<matrix, fillVars, cutVars, interpVars, matrix_out, error, done, yielded>>

dataVars == <<data2d>>

vars == <<gateVars, matVars, dataVars>>

---------------------------------------------------------------------------
(* Bounds of the model *)

\* largest finite y of a query (sample y's stay below it)
MaxY == 8

\* longest array query
MaxLen == 2

\* most columns of a matrix given to fill_negative
MaxCols == 4

\* largest window_size given to fill_negative
MaxW == 2

---------------------------------------------------------------------------
(* Small helpers *)

SetMax(S) == CHOOSE m \in S : \A n \in S : n <= m

SetMin(S) == CHOOSE m \in S : \A n \in S : m <= n

Larger(a, b) == IF a >= b THEN a ELSE b

Smaller(a, b) == IF a <= b THEN a ELSE b

---------------------------------------------------------------------------
(* interpolation.py: Interpolation, as Gate and GateSector use it          *)
(*   Interpolation(x, y, kind='cubic', bounds_error=False,                 *)
(*                 fill_value=(max(y), min(y)))                            *)

\* kind='cubic' is a spline of order 3: interp1d refuses fewer than order + 1
\* samples with a ValueError
MinSamples == 4

\* the absent interpolant (Python's None)
None == [pts |-> {}, fill |-> <<0, 0>>, bounds_error |-> FALSE]

IsNone(c) == c.pts = {}

\* Can interp1d build the spline over these rows?  (the x's of a subset are
\* distinct in every table of the model)
FitFails(rows) == Cardinality(rows) < MinSamples

\* Interpolation gone wrong: the two fill values are exchanged (C13 must
\* reject it)
InterpolationSwapped(rows) ==
    [pts  |-> {<<r.x, r.y>> : r \in rows},
     fill |-> <<SetMin({r.y : r \in rows}), SetMax({r.y : r \in rows})>>,
     bounds_error |-> FALSE]

\* The interpolant built from a non-empty subset of rows: its samples, the
\* fill_value pair (below the domain, above the domain) and bounds_error.
Interpolation(rows) ==
    [pts  |-> {<<r.x, r.y>> : r \in rows},
     fill |-> <<SetMax({r.y : r \in rows}), SetMin({r.y : r \in rows})>>,
     bounds_error |-> FALSE]

\* interp1d raises a ValueError for a query outside [min(x), max(x)] when
\* bounds_error is set
DomainError(c, x) ==
    LET xs == {p[1] : p \in c.pts}
    IN  c.bounds_error /\ (x < SetMin(xs) \/ x > SetMax(xs))

\* Interpolation.__call__: interp1d with bounds_error=False returns
\* fill_value[0] below the smallest sample x and fill_value[1] above the
\* largest; at a sample x the interpolating spline returns that sample's y.
\* (Every in-domain query of the model is a sample x: the value of the cubic
\* between samples is not modelled, and CHOOSE fails loudly if it is asked.)
Eval(c, x) ==
    LET xs == {p[1] : p \in c.pts}
    IN  IF x < SetMin(xs) THEN c.fill[1]
        ELSE IF x > SetMax(xs) THEN c.fill[2]
        ELSE (CHOOSE p \in c.pts : p[1] = x)[2]

---------------------------------------------------------------------------
(* The sample tables and the queries of the model *)

Row(quad, ring, kind, lim, p) ==
    [quad |-> quad, ring |-> ring, kind |-> kind, lim |-> lim,
     x |-> p[1], y |-> p[2]]

Rows(quad, ring, kind, lim, pts) ==
    {Row(quad, ring, kind, lim, p) : p \in pts}

\* Candidate point sets of a (key, lim) subset: absent, a single row (too
\* few for a cubic), or a full curve.  Element 1 is for quadrant 1, element
\* 2 for quadrant 2; x's are contiguous integers so that the two quadrants
\* merge into one curve when GateSector groups by kind alone.
LowPts ==
    <<{ {}, {<<4, 2>>}, {<<1, 2>>, <<2, 3>>, <<3, 3>>, <<4, 2>>} },
      { {}, {<<5, 1>>}, {<<5, 1>>, <<6, 2>>, <<7, 2>>, <<8, 1>>} }>>

HighPts ==
    <<{ {}, {<<4, 5>>}, {<<1, 6>>, <<2, 7>>, <<3, 7>>, <<4, 5>>} },
      { {}, {<<5, 5>>}, {<<5, 5>>, <<6, 6>>, <<7, 6>>, <<8, 4>>} }>>

\* Tables: rows for (quad 1, ring 1, kind "p") and rows for (quad 2, ring 1,
\* kind "p" or "d"), each side of each drawn from the candidates.
Tables ==
    { Rows(1, 1, "p", "min", la) \cup Rows(1, 1, "p", "max", ha)
        \cup Rows(2, 1, kb, "min", lb) \cup Rows(2, 1, kb, "max", hb) :
      la \in LowPts[1], ha \in HighPts[1], kb \in {"p", "d"},
      lb \in {s \in LowPts[2] : Cardinality(s) # 1}, hb \in HighPts[2] }

QueryQuads == {1, 2}
QueryRings == {1}
QueryKinds == {"p", "d", "t"}

\* below every domain, sample x's of either quadrant, above every domain
QueryXs == {0, 2, 5, 9}

QueryYs == (-1 .. MaxY) \cup {MaxY + 2, MaxY + 3}

\* the points array queries are made of: on a lower boundary, inside, y = 0
ArrayPoints == {<<2, 3>>, <<2, 5>>, <<9, 0>>}

\* A query: x and y of the same shape; a scalar is a one-element sequence
\* with array = FALSE.
Queries ==
    { [array |-> FALSE, x |-> <<x>>, y |-> <<y>>] : x \in QueryXs, y \in QueryYs }
    \cup
    UNION { { [array |-> TRUE,
               x |-> [i \in 1..n |-> s[i][1]],
               y |-> [i \in 1..n |-> s[i][2]]] : s \in [1..n -> ArrayPoints] }
            : n \in 0..MaxLen }

---------------------------------------------------------------------------
(* gate.py: Gate *)

\* 1e99
Huge == MaxY + 2

\* what a call returned: None, a numpy bool, or a boolean array
RetNone == [type |-> "None", val |-> <<>>]

RetBool(q, val) == [type |-> IF q.array THEN "array" ELSE "scalar", val |-> val]

\* the call ended with the ValueError of an interpolant
RetError == [type |-> "ValueError", val |-> <<>>]

\* some point of the query is outside the domain of a curve that refuses it
Refused(c, q) == \E i \in 1..Len(q.x) : DomainError(c, q.x[i])

Subset(d, quad, ring, kind, lim) ==
    {r \in d : r.quad = quad /\ r.ring = ring /\ r.kind = kind /\ r.lim = lim}

\* the keys the three nested loops of Gate.__init__ visit
LoopKeys(d) ==
    {<<r1.quad, r2.ring, r3.kind>> : r1 \in d, r2 \in d, r3 \in d}

\* Gate.__init__ gone wrong: a fit that fails is skipped and the object is
\* returned with the remaining keys (C14 must reject it)
GateInitPartial(d) ==
    LET fitted(lim) == {k \in LoopKeys(d) :
                          /\ Subset(d, k[1], k[2], k[3], lim) # {}
                          /\ ~FitFails(Subset(d, k[1], k[2], k[3], lim))}
    IN  [status |-> "built",
         gates_low  |-> [k \in fitted("min") |->
                           Interpolation(Subset(d, k[1], k[2], k[3], "min"))],
         gates_high |-> [k \in fitted("max") |->
                           Interpolation(Subset(d, k[1], k[2], k[3], "max"))]]

\* Gate.__init__: one interpolant per non-empty subset; the first fit that
\* fails raises out of the constructor and no object is returned.
GateInit(d) ==
    LET lowKeys  == {k \in LoopKeys(d) : Subset(d, k[1], k[2], k[3], "min") # {}}
        highKeys == {k \in LoopKeys(d) : Subset(d, k[1], k[2], k[3], "max") # {}}
    IN  IF \/ \E k \in lowKeys  : FitFails(Subset(d, k[1], k[2], k[3], "min"))
           \/ \E k \in highKeys : FitFails(Subset(d, k[1], k[2], k[3], "max"))
        THEN [status |-> "raised", gates_low |-> <<>>, gates_high |-> <<>>]
        ELSE [status |-> "built",
              gates_low  |-> [k \in lowKeys  |->
                                Interpolation(Subset(d, k[1], k[2], k[3], "min"))],
              gates_high |-> [k \in highKeys |->
                                Interpolation(Subset(d, k[1], k[2], k[3], "max"))]]

defaultMax(default, x) == IF default THEN Huge ELSE 0

defaultMin(default, x) == IF default THEN 0 ELSE Huge

\* Gate.__call__ gone wrong: the comparison includes the boundary (C1 must
\* reject it)
GateCallInclusive(g, default, q, quad, ring, kind) ==
    LET key == <<quad, ring, kind>>
        max_gate(x) == IF key \in DOMAIN g.gates_high
                       THEN Eval(g.gates_high[key], x) ELSE defaultMax(default, x)
        min_gate(x) == IF key \in DOMAIN g.gates_low
                       THEN Eval(g.gates_low[key], x) ELSE defaultMin(default, x)
        refused == \/ key \in DOMAIN g.gates_high /\ Refused(g.gates_high[key], q)
                   \/ key \in DOMAIN g.gates_low /\ Refused(g.gates_low[key], q)
    IN  IF refused
        THEN RetError
        ELSE RetBool(q, [i \in 1..Len(q.x) |->
                           q.y[i] <= max_gate(q.x[i]) /\ q.y[i] >= min_gate(q.x[i])])

\* Gate.__call__
GateCall(g, default, q, quad, ring, kind) ==
    LET key == <<quad, ring, kind>>
        max_gate(x) == IF key \in DOMAIN g.gates_high
                       THEN Eval(g.gates_high[key], x) ELSE defaultMax(default, x)
        min_gate(x) == IF key \in DOMAIN g.gates_low
                       THEN Eval(g.gates_low[key], x) ELSE defaultMin(default, x)
        refused == \/ key \in DOMAIN g.gates_high /\ Refused(g.gates_high[key], q)
                   \/ key \in DOMAIN g.gates_low /\ Refused(g.gates_low[key], q)
    IN  IF refused
        THEN RetError
        ELSE RetBool(q, [i \in 1..Len(q.x) |->
                           q.y[i] < max_gate(q.x[i]) /\ q.y[i] > min_gate(q.x[i])])

---------------------------------------------------------------------------
(* gate.py: ActGate and GateSector *)

ActGate(Max, Min, Default) == [max |-> Max, min |-> Min, default |-> Default]

\* ActGate.__call__: with a side missing, only an ndarray x gets an answer;
\* any other x falls off the end of the function, which returns None.
ActGateCall(a, q) ==
    IF IsNone(a.max) \/ IsNone(a.min)
    THEN IF q.array
         THEN RetBool(q, [i \in 1..Len(q.x) |-> a.default])
         ELSE RetNone
    ELSE IF Refused(a.max, q) \/ Refused(a.min, q)
    THEN RetError
    ELSE RetBool(q, [i \in 1..Len(q.x) |->
                       q.y[i] < Eval(a.max, q.x[i]) /\ q.y[i] > Eval(a.min, q.x[i])])

KindSubset(d, kind, lim) == {r \in d : r.kind = kind /\ r.lim = lim}

\* GateSector.__init__: a fitted pair only when both sides have rows
GateSectorInit(d, default) ==
    LET kinds  == {r.kind : r \in d}
        both   == {k \in kinds : KindSubset(d, k, "min") # {}
                                 /\ KindSubset(d, k, "max") # {}}
    IN  IF \E k \in both : \/ FitFails(KindSubset(d, k, "max"))
                           \/ FitFails(KindSubset(d, k, "min"))
        THEN [status |-> "raised", gates |-> <<>>,
              default_gate |-> ActGate(None, None, default)]
        ELSE [status |-> "built",
              gates |-> [k \in kinds |->
                           IF k \in both
                           THEN ActGate(Interpolation(KindSubset(d, k, "max")),
                                        Interpolation(KindSubset(d, k, "min")),
                                        TRUE)
                           ELSE ActGate(None, None, default)],
              default_gate |-> ActGate(None, None, default)]

\* the ActGate that GateSector.__call__ looks up
SectorLookup(s, kind) ==
    IF kind \in DOMAIN s.gates THEN s.gates[kind] ELSE s.default_gate

\* GateSector.__call__
GateSectorCall(s, q, kind) == ActGateCall(SectorLookup(s, kind), q)

---------------------------------------------------------------------------
(* The gating engine as a state machine *)

NotBuilt == [status |-> "absent", gates_low |-> <<>>, gates_high |-> <<>>]

SectorNotBuilt ==
    [status |-> "absent", gates |-> <<>>, default_gate |-> ActGate(None, None, TRUE)]

NoCall ==
    [op |-> "none", q |-> [array |-> TRUE, x |-> <<>>, y |-> <<>>],
     quad |-> 0, ring |-> 0, kind |-> "", ret |-> RetNone]

\* no gate is in play
NoGates ==
    /\ df = {}
    /\ Default_return = TRUE
    /\ gate = NotBuilt
    /\ sector = SectorNotBuilt
    /\ call = NoCall

\* the arguments a specification does not use, and nothing returned yet
NoFillArgs == window_size = 0

NoCutArgs == Ex_array = <<>> /\ Eg_array = <<>> /\ E1 = <<>> /\ E2 = <<>>

NoInterpArgs ==
    /\ E0_array_in = <<>>
    /\ E1_array_in = <<>>
    /\ E0_array_out = <<>>
    /\ E1_array_out = <<>>

NothingReturned ==
    matrix_out = <<>> /\ error = "" /\ done = "" /\ yielded = <<>>

\* no Data2D has been constructed
NotConstructed ==
    [status |-> "absent", raw |-> <<>>, size |-> 0,
     xcal |-> <<>>, ycal |-> <<>>, cal |-> <<>>]

NoData2D == data2d = NotConstructed

Init ==
    /\ df \in Tables
    /\ Default_return \in BOOLEAN
    /\ gate = NotBuilt
    /\ sector = SectorNotBuilt
    /\ call = NoCall
    /\ matrix = <<>>
    /\ NoFillArgs
    /\ NoCutArgs
    /\ NoInterpArgs
    /\ NothingReturned
    /\ NoData2D

\* gate = Gate(df, default)
NewGate ==
    /\ gate.status = "absent"
    /\ gate' = GateInit(df)
    /\ UNCHANGED <<df, Default_return, sector, call, matVars, dataVars>>

\* sector = GateSector(df, default)
NewGateSector ==
    /\ sector.status = "absent"
    /\ sector' = GateSectorInit(df, Default_return)
    /\ UNCHANGED <<df, Default_return, gate, call, matVars, dataVars>>

\* gate(x, y, quad, ring, kind).  A query reads the object and changes
\* nothing, so a behaviour makes one query and keeps what it returned.
CallGate ==
    /\ gate.status = "built"
    /\ call.op = "none"
    /\ \E q \in Queries, quad \in QueryQuads, ring \in QueryRings, kind \in QueryKinds :
          call' = [op |-> "Gate", q |-> q, quad |-> quad, ring |-> ring, kind |-> kind,
                   ret |-> GateCall(gate, Default_return, q, quad, ring, kind)]
    /\ UNCHANGED <<df, Default_return, gate, sector, matVars, dataVars>>

\* sector(x, y, kind)
CallGateSector ==
    /\ sector.status = "built"
    /\ call.op = "none"
    /\ \E q \in Queries, kind \in QueryKinds :
          call' = [op |-> "GateSector", q |-> q, quad |-> 0, ring |-> 0, kind |-> kind,
                   ret |-> GateSectorCall(sector, q, kind)]
    /\ UNCHANGED <<df, Default_return, gate, sector, matVars, dataVars>>

Next == NewGate \/ NewGateSector \/ CallGate \/ CallGateSector

Spec == Init /\ [][Next]_vars

---------------------------------------------------------------------------
(* Claims about the gating engine, checked under Spec *)

CallKey == <<call.quad, call.ring, call.kind>>

\* the result is a boolean of the query's shape, and element i is want(i)
Answers(want(_)) ==
    /\ call.ret.type = (IF call.q.array THEN "array" ELSE "scalar")
    /\ Len(call.ret.val) = Len(call.q.x)
    /\ \A i \in 1..Len(call.q.x) : call.ret.val[i] = want(i)

\* y[i] lies strictly between the two curves at x[i]
Between(lower, upper, i) ==
    Eval(lower, call.q.x[i]) < call.q.y[i] /\ call.q.y[i] < Eval(upper, call.q.x[i])

\* C1: when both boundary curves of the key are fitted, Gate (and the fitted
\* pair GateSector holds for a kind) answers True exactly where
\* lower(x) < y < upper(x); a y equal to lower(x) or upper(x) gets False.
C1_StrictlyBetween ==
    /\ (/\ call.op = "Gate"
        /\ CallKey \in DOMAIN gate.gates_low
        /\ CallKey \in DOMAIN gate.gates_high)
       => LET want(i) == Between(gate.gates_low[CallKey], gate.gates_high[CallKey], i)
          IN  Answers(want)
    /\ (/\ call.op = "GateSector"
        /\ ~IsNone(SectorLookup(sector, call.kind).min)
        /\ ~IsNone(SectorLookup(sector, call.kind).max))
       => LET want(i) == Between(SectorLookup(sector, call.kind).min,
                                 SectorLookup(sector, call.kind).max, i)
          IN  Answers(want)

\* C1's case: a Gate query on a fitted key whose y sits exactly on the lower
\* curve, answered False
C1_Witness ==
    /\ call.op = "Gate"
    /\ CallKey \in DOMAIN gate.gates_low
    /\ CallKey \in DOMAIN gate.gates_high
    /\ \E i \in 1..Len(call.q.x) :
          /\ call.q.y[i] = Eval(gate.gates_low[CallKey], call.q.x[i])
          /\ call.ret.val[i] = FALSE

\* C2: a Gate query with a key that has no fitted curve returns the Gate's
\* default for every point (x, y), whatever y is.
C2_UnknownKeyGivesDefault ==
    (/\ call.op = "Gate"
     /\ CallKey \notin DOMAIN gate.gates_low
     /\ CallKey \notin DOMAIN gate.gates_high)
    => LET want(i) == Default_return
       IN  Answers(want)

\* C3: a boundary pair with neither side fitted, as GateSector uses it,
\* returns its default for every input, scalar or array, in the shape of
\* the query.
C3_UnfittedPairGivesDefault ==
    (/\ call.op = "GateSector"
     /\ IsNone(SectorLookup(sector, call.kind).min)
     /\ IsNone(SectorLookup(sector, call.kind).max))
    => LET want(i) == SectorLookup(sector, call.kind).default
       IN  Answers(want)

\* the table has rows for exactly one of the two sides
OneSided(lowRows, highRows) == (lowRows = {}) # (highRows = {})

\* C4: when the table gives a key only 'min' rows or only 'max' rows, every
\* query on that key gets the default, from Gate and from GateSector alike.
C4_OneSidedGivesDefault ==
    LET want(i) == Default_return
    IN  /\ (/\ call.op = "Gate"
            /\ OneSided(Subset(df, call.quad, call.ring, call.kind, "min"),
                        Subset(df, call.quad, call.ring, call.kind, "max")))
           => Answers(want)
        /\ (/\ call.op = "GateSector"
            /\ OneSided(KindSubset(df, call.kind, "min"),
                        KindSubset(df, call.kind, "max")))
           => Answers(want)

\* every row of the table carries the (quadrant, ring) pair of the query
SharedPair ==
    /\ df # {}
    /\ \A r \in df : r.quad = call.quad /\ r.ring = call.ring

\* C12: for a table whose rows all share one (quadrant, ring) pair, and for
\* every kind, default and query point, GateSector(x, y, kind) returns what
\* Gate(x, y, quadrant, ring, kind) returns.
C12_SectorEqualsGate ==
    (/\ call.op = "Gate"
     /\ SharedPair
     /\ sector.status = "built")
    => call.ret = GateSectorCall(sector, call.q, call.kind)

\* below the smallest sample x the curve is max(y) of its rows, above the
\* largest sample x it is min(y) of its rows
ExtremesOutside(c, rows) ==
    LET xs == {r.x : r \in rows}
        ys == {r.y : r \in rows}
    IN  \A x \in QueryXs :
           /\ x < SetMin(xs) => Eval(c, x) = SetMax(ys)
           /\ x > SetMax(xs) => Eval(c, x) = SetMin(ys)

\* C13: every boundary curve fitted by Gate or GateSector extrapolates with
\* the extremes of its own subset (max(y) below the smallest sample x, min(y)
\* above the largest), and no query through a gate ends in a domain error.
C13_ExtrapolatesWithOwnExtremes ==
    /\ \A k \in DOMAIN gate.gates_low :
          ExtremesOutside(gate.gates_low[k], Subset(df, k[1], k[2], k[3], "min"))
    /\ \A k \in DOMAIN gate.gates_high :
          ExtremesOutside(gate.gates_high[k], Subset(df, k[1], k[2], k[3], "max"))
    /\ \A k \in DOMAIN sector.gates :
          ~IsNone(sector.gates[k].max) =>
             /\ ExtremesOutside(sector.gates[k].max, KindSubset(df, k, "max"))
             /\ ExtremesOutside(sector.gates[k].min, KindSubset(df, k, "min"))
    /\ call.ret # RetError

\* C13's case: a scalar Gate query on a fitted key, left of every sample,
\* whose y is max(y) of the 'min' rows: it sits on the extrapolated lower
\* curve and is answered False, while the 'min' rows do not all share one y
C13_Witness ==
    /\ call.op = "Gate"
    /\ CallKey \in DOMAIN gate.gates_low
    /\ CallKey \in DOMAIN gate.gates_high
    /\ ~call.q.array
    /\ LET rows == Subset(df, call.quad, call.ring, call.kind, "min")
       IN  /\ call.q.x[1] < SetMin({r.x : r \in rows})
           /\ call.q.y[1] = SetMax({r.y : r \in rows})
           /\ call.q.y[1] > SetMin({r.y : r \in rows})
    /\ call.ret = [type |-> "scalar", val |-> <<FALSE>>]

\* the (key, limit) subsets of the table that have rows
NonEmptySubsets ==
    {kl \in LoopKeys(df) \X {"min", "max"} :
        Subset(df, kl[1][1], kl[1][2], kl[1][3], kl[2]) # {}}

\* the subsets whose fit fails
FailingSubsets ==
    {kl \in NonEmptySubsets :
        FitFails(Subset(df, kl[1][1], kl[1][2], kl[1][3], kl[2]))}

\* C14: Gate construction is all-or-nothing.  If the fit of any (quadrant,
\* ring, kind, limit) subset fails, the constructor raises and no Gate is
\* returned (none can be queried); a Gate that is returned holds the curve
\* of every subset that has rows.
C14_AllOrNothing ==
    gate.status # "absent" =>
        IF FailingSubsets # {}
        THEN /\ gate.status = "raised"
             /\ gate.gates_low = <<>>
             /\ gate.gates_high = <<>>
             /\ call.op # "Gate"
        ELSE /\ gate.status = "built"
             /\ DOMAIN gate.gates_low = {kl[1] : kl \in {n \in NonEmptySubsets : n[2] = "min"}}
             /\ DOMAIN gate.gates_high = {kl[1] : kl \in {n \in NonEmptySubsets : n[2] = "max"}}

\* C14's case: the constructor raised on a table where one subset has a
\* single row and another subset has enough rows for its curve
C14_Witness ==
    /\ gate.status = "raised"
    /\ \E kl \in NonEmptySubsets :
          Cardinality(Subset(df, kl[1][1], kl[1][2], kl[1][3], kl[2])) = 1
    /\ NonEmptySubsets \ FailingSubsets # {}

---------------------------------------------------------------------------
(* library.py: fill_negative *)
(* Matrices are sequences of rows; the code's 0-based column j is element  *)
(* j + 1 of a row.  Cell values are integers (counts).                     *)

\* row[j] with the code's 0-based index
At(row, j) == row[j + 1]

\* row[lo:hi]
Slice(row, lo, hi) == [k \in 1..(hi - lo) |-> row[lo + k]]

\* np.argmax: the 0-based position of the first maximum
ArgMax(s) ==
    CHOOSE k \in 0..(Len(s) - 1) :
        /\ \A n \in 1..Len(s) : s[n] <= s[k + 1]
        /\ \A n \in 1..k : s[n] < s[k + 1]

\* Negatives gone wrong: the filter on negative cells forgotten (C7 must
\* reject it)
AllColumns(row) == 0..(Len(row) - 1)

\* np.where(matrix[i_Ex, :] < 0)[0]: the columns the inner loop visits
Negatives(row) == {j \in 0..(Len(row) - 1) : At(row, j) < 0}

\* Fill gone wrong: the cap at zero forgotten (C6 must reject it)
FillUncapped(positive, negative) == positive + negative

\* fill = min(0, positive + negative)
Fill(positive, negative) == Smaller(0, positive + negative)

\* What the inner loop leaves in matrix_out[i_Ex, i_Eg] for a visited column.
\* i_max is a position inside the slice, and the code reads matrix[i_Ex, i_max]
\* with it, as a column of the whole row.
Repaired(row, i_Eg, w) ==
    LET i_Eg_low  == Larger(0, i_Eg - w)
        i_Eg_high == Smaller(Len(row), i_Eg + w)
        i_max     == ArgMax(Slice(row, i_Eg_low, i_Eg_high))
    IN  IF At(row, i_max) <= 0
        THEN At(row, i_Eg)
        ELSE Fill(At(row, i_max), At(row, i_Eg))

\* fill_negative(matrix, window_size): a copy of matrix with the visited
\* cells rewritten.  Every read is of the input matrix, so the order of the
\* loops does not matter.
fill_negative(m, w) ==
    [i \in 1..Len(m) |->
        [c \in 1..Len(m[i]) |->
            IF (c - 1) \in Negatives(m[i]) THEN Repaired(m[i], c - 1, w)
            ELSE m[i][c]]]

\* the cell values of the model: a negative cell, an empty one, a donor too
\* small to cancel the negative cell and one large enough
Cells == {-2, 0, 1, 3}

\* second rows: one without a negative cell, one with a negative cell first
SecondRows(n) == { [c \in 1..n |-> 1], [c \in 1..n |-> IF c = 1 THEN -2 ELSE 3] }

FillMatrices ==
    UNION { { <<r>> : r \in [1..n -> Cells] }
            \cup { <<r, r2>> : r \in [1..n -> Cells], r2 \in SecondRows(n) }
            : n \in 1..MaxCols }

InitFill ==
    /\ NoGates
    /\ matrix \in FillMatrices
    /\ window_size \in 1..MaxW
    /\ NoCutArgs
    /\ NoInterpArgs
    /\ NothingReturned
    /\ NoData2D

\* matrix_out = fill_negative(matrix, window_size)
CallFillNegative ==
    /\ done = ""
    /\ matrix_out' = fill_negative(matrix, window_size)
    /\ error' = ""
    /\ done' = "fill_negative"
    /\ UNCHANGED <<gateVars, matrix, fillVars, cutVars, interpVars, yielded, dataVars>>

NextFill == CallFillNegative

SpecFill == InitFill /\ [][NextFill]_vars

---------------------------------------------------------------------------
(* Claims about fill_negative, checked under SpecFill *)

\* the columns max(0, j - w) .. min(ncols, j + w) - 1 of a row: the slice
\* the code takes
Window(row, j, w) == Larger(0, j - w) .. (Smaller(Len(row), j + w) - 1)

WindowMax(row, j, w) == SetMax({At(row, k) : k \in Window(row, j, w)})

\* C5: every negative input cell v becomes min(0, M + v) when the maximum M
\* of its window is positive, and stays v otherwise, wherever in the row the
\* window lies.
C5_DonorIsWindowMax ==
    done = "fill_negative" =>
        \A i \in 1..Len(matrix) : \A j \in 0..(Len(matrix[i]) - 1) :
            At(matrix[i], j) < 0 =>
                At(matrix_out[i], j) =
                    IF WindowMax(matrix[i], j, window_size) > 0
                    THEN Smaller(0, WindowMax(matrix[i], j, window_size) + At(matrix[i], j))
                    ELSE At(matrix[i], j)

\* C6: a cell that is negative in the input ends between its input value
\* and zero: it never overshoots.
C6_NeverOvershoots ==
    done = "fill_negative" =>
        \A i \in 1..Len(matrix) : \A j \in 0..(Len(matrix[i]) - 1) :
            At(matrix[i], j) < 0 =>
                /\ At(matrix[i], j) <= At(matrix_out[i], j)
                /\ At(matrix_out[i], j) <= 0

\* C6's case: a negative cell was raised, one of them all the way to zero by
\* a donor larger than its magnitude
C6_Witness ==
    /\ done = "fill_negative"
    /\ \E i \in 1..Len(matrix) : \E j \in 0..(Len(matrix[i]) - 1) :
          /\ At(matrix[i], j) < 0
          /\ At(matrix_out[i], j) = 0
          /\ \E k \in 0..(Len(matrix[i]) - 1) : At(matrix[i], k) + At(matrix[i], j) > 0

\* C7: every cell that is not negative in the input is the same in the
\* output, donors included, and the output has the shape of the input.
C7_NonNegativeUnchanged ==
    done = "fill_negative" =>
        /\ Len(matrix_out) = Len(matrix)
        /\ \A i \in 1..Len(matrix) :
              /\ Len(matrix_out[i]) = Len(matrix[i])
              /\ \A j \in 0..(Len(matrix[i]) - 1) :
                    At(matrix[i], j) >= 0 => At(matrix_out[i], j) = At(matrix[i], j)

\* C7's case: a negative cell was filled from a positive donor, and a second
\* row without a negative cell went through untouched
C7_Witness ==
    /\ done = "fill_negative"
    /\ Len(matrix) = 2
    /\ \E j \in 0..(Len(matrix[1]) - 1) :
          At(matrix[1], j) < 0 /\ At(matrix_out[1], j) > At(matrix[1], j)
    /\ \A j \in 0..(Len(matrix[2]) - 1) : At(matrix[2], j) >= 0
    /\ matrix_out[2] = matrix[2]

---------------------------------------------------------------------------
(* library.py: i_from_E, line, make_mask, cut_diagonal *)
(* Row and column indices are the code's, 0-based.                          *)

Abs(a) == IF a >= 0 THEN a ELSE -a

\* np.argmin(np.abs(E_array - E)): the index of the first closest value
i_from_E(E, E_array) ==
    CHOOSE k \in 0..(Len(E_array) - 1) :
        /\ \A n \in 1..Len(E_array) : Abs(E_array[k + 1] - E) <= Abs(E_array[n] - E)
        /\ \A n \in 1..k : Abs(E_array[k + 1] - E) < Abs(E_array[n] - E)

\* line(x, points) with points = [x1, y1, x2, y2]: the value a*x + b, kept
\* as the fraction num / den with den = x2 - x1.  den = 0 is the division
\* of a numpy integer by float(0): numpy warns and yields inf or nan, and
\* a*x + b is then nan for every x.
line(x, points) ==
    [num |-> (points[4] - points[2]) * (x - points[1])
               + points[2] * (points[3] - points[1]),
     den |-> points[3] - points[1]]

\* The code evaluates a and b in IEEE-754 doubles.  For indices 0..4 these
\* are all the <<points, x>> at which the double a*x + b is not the exact
\* value: the exact value is an integer and the double lies one or two
\* units in the last place below it (a = -1/3 or 1/3 is not representable),
\* e.g. points = [1, 4, 4, 3], x = 1 gives 3.9999999999999996 for 4.  On
\* the lines the model draws over a ten-bin axis (slopes -1, 0, 1) the
\* doubles are exact.
RoundsBelow ==
    { << <<1, 4, 4, 3>>, 1 >>, << <<4, 1, 1, 2>>, 1 >>, << <<4, 1, 1, 2>>, 4 >>,
      << <<4, 2, 1, 3>>, 1 >>, << <<4, 2, 1, 3>>, 4 >>, << <<4, 2, 1, 4>>, 1 >>,
      << <<4, 2, 1, 4>>, 4 >>, << <<4, 3, 1, 4>>, 1 >> }

\* i > line(x, points), as the doubles compare (a comparison with nan is
\* False)
ExceedsLine(i, x, points) ==
    LET l == line(x, points)
    IN  /\ l.den # 0
        /\ \/ (l.den > 0 /\ i * l.den > l.num)
           \/ (l.den < 0 /\ i * l.den < l.num)
           \/ (i * l.den = l.num /\ <<points, x>> \in RoundsBelow)

\* make_mask: 1 where the row index exceeds the line at the column index
make_mask(Ex, Eg, Ex1, Eg1, Ex2, Eg2) ==
    LET cut_points == <<i_from_E(Eg1, Eg), i_from_E(Ex1, Ex),
                        i_from_E(Eg2, Eg), i_from_E(Ex2, Ex)>>
    IN  [r \in 1..Len(Ex) |->
            [c \in 1..Len(Eg) |->
                IF ExceedsLine(r - 1, c - 1, cut_points) THEN 1 ELSE 0]]

\* cut_diagonal: np.where(mask, matrix, 0)
cut_diagonal(m, Ex, Eg, P1, P2) ==
    LET mask == make_mask(Ex, Eg, P1[1], P1[2], P2[1], P2[2])
    IN  [r \in 1..Len(m) |->
            [c \in 1..Len(m[r]) |-> IF mask[r][c] = 1 THEN m[r][c] ELSE 0]]

\* the axis 0, 1, ..., n - 1
Ramp(n) == [k \in 1..n |-> k - 1]

\* the axes of the model, <<Ex_array, Eg_array>>
CutAxes ==
    { <<Ramp(5), Ramp(5)>>, << <<0, 10, 20>>, Ramp(4) >>, <<Ramp(10), Ramp(10)>> }

\* the energies a point may have on an axis: bin values, values between
\* bins (5 is as close to 0 as to 10), values beyond the axis
Energies(axis) ==
    IF axis = <<0, 10, 20>> THEN {-3, 4, 5, 16, 20}
    ELSE IF Len(axis) = 10 THEN {0, 9}
    ELSE {axis[k] : k \in 1..Len(axis)}

\* the matrices of the model: all ones, and one with a different count in
\* every cell
CutMatrices(nrows, ncols) ==
    { [r \in 1..nrows |-> [c \in 1..ncols |-> 1]],
      [r \in 1..nrows |-> [c \in 1..ncols |-> (r - 1) * ncols + c]] }

InitCut ==
    /\ NoGates
    /\ \E axes \in CutAxes :
          /\ Ex_array = axes[1]
          /\ Eg_array = axes[2]
          /\ matrix \in CutMatrices(Len(axes[1]), Len(axes[2]))
          /\ E1 \in Energies(axes[1]) \X Energies(axes[2])
          /\ E2 \in Energies(axes[1]) \X Energies(axes[2])
    /\ NoFillArgs
    /\ NoInterpArgs
    /\ NothingReturned
    /\ NoData2D

\* matrix_out = cut_diagonal(matrix, Ex_array, Eg_array, E1, E2)
CallCutDiagonal ==
    /\ done = ""
    /\ matrix_out' = cut_diagonal(matrix, Ex_array, Eg_array, E1, E2)
    /\ error' = ""
    /\ done' = "cut_diagonal"
    /\ UNCHANGED <<gateVars, matrix, fillVars, cutVars, interpVars, yielded, dataVars>>

NextCut == CallCutDiagonal

SpecCut == InitCut /\ [][NextCut]_vars

---------------------------------------------------------------------------
(* Claims about cut_diagonal, checked under SpecCut *)

\* the nearest-bin indices of the two points
CutI1 == i_from_E(E1[1], Ex_array)
CutJ1 == i_from_E(E1[2], Eg_array)
CutI2 == i_from_E(E2[1], Ex_array)
CutJ2 == i_from_E(E2[2], Eg_array)

\* i > a*j + b for the line through (j1, i1) and (j2, i2), j1 # j2
AboveLine(i, j) ==
    LET d == CutJ2 - CutJ1
        n == (CutI2 - CutI1) * (j - CutJ1) + CutI1 * d
    IN  IF d > 0 THEN i * d > n ELSE i * d < n

\* C8: output cell (i, j) is the input cell when i > a*j + b for the line
\* through the two nearest-bin index pairs, and 0 otherwise; for the
\* all-ones 10x10 matrix with axes 0..9 and the line from (0,0) to (9,9)
\* the output is 1 exactly where the row index exceeds the column index.
C8_KeepsCellsAboveLine ==
    (done = "cut_diagonal" /\ CutJ1 # CutJ2) =>
        /\ \A r \in 1..Len(matrix) : \A c \in 1..Len(matrix[r]) :
              matrix_out[r][c] = IF AboveLine(r - 1, c - 1) THEN matrix[r][c] ELSE 0
        /\ (/\ Ex_array = Ramp(10)
            /\ Eg_array = Ramp(10)
            /\ E1 = <<0, 0>>
            /\ E2 = <<9, 9>>
            /\ \A r \in 1..10 : \A c \in 1..10 : matrix[r][c] = 1)
           => \A r \in 1..10 : \A c \in 1..10 :
                 matrix_out[r][c] = IF r > c THEN 1 ELSE 0

\* C9: a degenerate line (both points in the same column bin) ends
\* cut_diagonal with an error, and no matrix is returned.
C9_DegenerateLineRaises ==
    (done = "cut_diagonal" /\ CutJ1 = CutJ2) =>
        error # "" /\ matrix_out = <<>>

---------------------------------------------------------------------------
(* library.py: interpolate_matrix_2D *)
(* Axis values and counts are integers; a value of the spline is kept as   *)
(* the exact fraction num / den (den > 0), so nothing is rounded away.     *)

\* the 0 that np.where writes into a masked cell
Zero == [num |-> 0, den |-> 1]

Clamp(v, axis) == Larger(axis[1], Smaller(axis[Len(axis)], v))

\* the source interval [axis[k], axis[k+1]] that holds a clamped coordinate
Interval(v, axis) ==
    CHOOSE k \in 1..(Len(axis) - 1) :
        axis[k] <= v /\ (v < axis[k + 1] \/ k = Len(axis) - 1)

\* Spline gone wrong: the two weights of each interval are exchanged, so a
\* knot takes the value of its neighbour (C11 must reject it)
SplineSwapped(m, axis0, axis1, x, y) ==
    LET cx  == Clamp(x, axis0)
        cy  == Clamp(y, axis1)
        k   == Interval(cx, axis0)
        l   == Interval(cy, axis1)
        wx0 == cx - axis0[k]
        wx1 == axis0[k + 1] - cx
        wy0 == cy - axis1[l]
        wy1 == axis1[l + 1] - cy
    IN  [num |-> m[k][l] * wx0 * wy0 + m[k + 1][l] * wx1 * wy0
                 + m[k][l + 1] * wx0 * wy1 + m[k + 1][l + 1] * wx1 * wy1,
         den |-> (axis0[k + 1] - axis0[k]) * (axis1[l + 1] - axis1[l])]

\* f(x, y) for f = RectBivariateSpline(axis0, axis1, m, kx=1, ky=1): the bilinear
\* interpolant of the source grid; outside the grid FITPACK evaluates at the
\* nearest point of its edge.
Spline(m, axis0, axis1, x, y) ==
    LET cx  == Clamp(x, axis0)
        cy  == Clamp(y, axis1)
        k   == Interval(cx, axis0)
        l   == Interval(cy, axis1)
        wx1 == cx - axis0[k]
        wx0 == axis0[k + 1] - cx
        wy1 == cy - axis1[l]
        wy0 == axis1[l + 1] - cy
    IN  [num |-> m[k][l] * wx0 * wy0 + m[k + 1][l] * wx1 * wy0
                 + m[k][l + 1] * wx0 * wy1 + m[k + 1][l + 1] * wx1 * wy1,
         den |-> (axis0[k + 1] - axis0[k]) * (axis1[l + 1] - axis1[l])]

\* OutOfBounds gone wrong: only the upper end of the axis is masked (C10
\* must reject it)
OutOfBoundsAbove(v, axis) == v >= axis[Len(axis)]

\* E_array_out <= E_array_in[0] or E_array_out >= E_array_in[-1]: the rows
\* (columns) the rectangular mask clears
OutOfBounds(v, axis) == v <= axis[1] \/ v >= axis[Len(axis)]

\* matrix_in.shape[0] == len(E0_array_in) and
\* matrix_in.shape[1] == len(E1_array_in)
ShapesAgree(m, axis0, axis1) ==
    Len(m) = Len(axis0) /\ \A r \in 1..Len(m) : Len(m[r]) = Len(axis1)

\* interpolate_matrix_2D: what it raises and what it returns
interpolate_matrix_2D(m, E0in, E1in, E0out, E1out) ==
    IF ~ShapesAgree(m, E0in, E1in)
    THEN [error |-> "Exception", matrix_out |-> <<>>]
    ELSE [error |-> "",
          matrix_out |->
             [r \in 1..Len(E0out) |->
                [c \in 1..Len(E1out) |->
                    IF OutOfBounds(E0out[r], E0in) \/ OutOfBounds(E1out[c], E1in)
                    THEN Zero
                    ELSE Spline(m, E0in, E1in, E0out[r], E1out[c])]]]

\* the source matrices of the model: two or three rows and columns, every
\* count positive
InterpMatrices ==
    UNION { [1..nr -> [1..nc -> {1, 3}]] : nr \in {2, 3}, nc \in {2, 3} }

\* source axes (strictly increasing, at least two values)
SourceAxes == { <<0, 2>>, <<0, 2, 4>> }

\* target axes (increasing): below, on, inside and above a source span
TargetAxes == { <<-1, 0, 1, 2, 3>>, <<0, 2>>, <<0, 2, 4>>, <<1, 5>> }

InitInterp ==
    /\ NoGates
    /\ matrix \in InterpMatrices
    /\ E0_array_in \in SourceAxes
    /\ E1_array_in \in SourceAxes
    /\ E0_array_out \in TargetAxes
    /\ E1_array_out \in TargetAxes
    /\ NoFillArgs
    /\ NoCutArgs
    /\ NothingReturned
    /\ NoData2D

\* matrix_out = interpolate_matrix_2D(matrix, E0_array_in, E1_array_in,
\*                                    E0_array_out, E1_array_out)
CallInterpolateMatrix2D ==
    /\ done = ""
    /\ LET r == interpolate_matrix_2D(matrix, E0_array_in, E1_array_in,
                                      E0_array_out, E1_array_out)
       IN  matrix_out' = r.matrix_out /\ error' = r.error
    /\ done' = "interpolate_matrix_2D"
    /\ UNCHANGED <<gateVars, matrix, fillVars, cutVars, interpVars, yielded, dataVars>>

NextInterp == CallInterpolateMatrix2D

SpecInterp == InitInterp /\ [][NextInterp]_vars

---------------------------------------------------------------------------
(* Claims about interpolate_matrix_2D, checked under SpecInterp *)

\* strictly outside the span of a source axis
OutsideSpan(v, axis) == v < axis[1] \/ v > axis[Len(axis)]

\* C10: every output cell whose target row coordinate or target column
\* coordinate lies outside the span of its source axis is exactly 0,
\* whatever the source matrix holds.
C10_OutsideSpanIsZero ==
    (done = "interpolate_matrix_2D" /\ error = "") =>
        /\ Len(matrix_out) = Len(E0_array_out)
        /\ \A r \in 1..Len(E0_array_out) :
              /\ Len(matrix_out[r]) = Len(E1_array_out)
              /\ \A c \in 1..Len(E1_array_out) :
                    (\/ OutsideSpan(E0_array_out[r], E0_array_in)
                     \/ OutsideSpan(E1_array_out[c], E1_array_in))
                    => matrix_out[r][c].num = 0

\* C10's case: a cell outside the span where the spline itself is not 0
\* (it extends the edge of a positive matrix) and the output is 0
C10_Witness ==
    /\ done = "interpolate_matrix_2D"
    /\ error = ""
    /\ \E r \in 1..Len(E0_array_out) : \E c \in 1..Len(E1_array_out) :
          /\ E0_array_out[r] < E0_array_in[1]
          /\ ~OutsideSpan(E1_array_out[c], E1_array_in)
          /\ Spline(matrix, E0_array_in, E1_array_in,
                    E0_array_out[r], E1_array_out[c]).num > 0
          /\ matrix_out[r][c] = Zero

\* first or last row, or first or last column, of a matrix with nr rows and
\* nc columns
OnBorder(r, c, nr, nc) == r = 1 \/ r = nr \/ c = 1 \/ c = nc

\* the matrix was resampled onto its own source axes
OntoOwnAxes ==
    /\ done = "interpolate_matrix_2D"
    /\ error = ""
    /\ E0_array_out = E0_array_in
    /\ E1_array_out = E1_array_in

\* C11: resampling a matrix onto its own source axes returns the original
\* value in every cell that is not in the first or last row or the first or
\* last column; those border cells are 0 in the output.
C11_OwnAxesIdempotent ==
    OntoOwnAxes =>
        /\ Len(matrix_out) = Len(matrix)
        /\ \A r \in 1..Len(matrix) :
              /\ Len(matrix_out[r]) = Len(matrix[r])
              /\ \A c \in 1..Len(matrix[r]) :
                    IF OnBorder(r, c, Len(matrix), Len(matrix[r]))
                    THEN matrix_out[r][c] = Zero
                    ELSE matrix_out[r][c].num
                            = matrix[r][c] * matrix_out[r][c].den

\* C11's case: a 3 x 3 matrix resampled onto its own axes, whose inner cell
\* differs from a neighbour and comes back unchanged
C11_Witness ==
    /\ OntoOwnAxes
    /\ Len(matrix) = 3
    /\ Len(matrix[2]) = 3
    /\ matrix[2][2] = 3
    /\ matrix[2][3] = 1
    /\ matrix[3][2] = 1
    /\ matrix_out[2][2].num = 3 * matrix_out[2][2].den

---------------------------------------------------------------------------
(* library.py: diagonal_elements *)
(* Indices are the code's 0-based indices: row i of the matrix is element  *)
(* i + 1 of the sequence, and a yielded pair is <<i, column>>.             *)

\* most rows, and most columns, of a matrix given to diagonal_elements
MaxDim == 3

\* reversed(row)
Reversed(row) == [k \in 1..Len(row) |-> row[Len(row) + 1 - k]]

\* the j at which `if col != 0.0` first holds in enumerate(reversed(row)),
\* or -1 when the inner loop ends without it
FirstHit(row) ==
    LET hits == {j \in 0..(Len(row) - 1) : At(Reversed(row), j) # 0}
    IN  IF hits = {} THEN -1 ELSE SetMin(hits)

\* what the generator yields from row i on: one pair (i, Ny - j) for a row
\* with a hit, nothing for a row without
RECURSIVE YieldFrom(_, _)
YieldFrom(m, i) ==
    IF i >= Len(m)
    THEN <<>>
    ELSE LET Ny == Len(m[1])
             j  == FirstHit(m[i + 1])
         IN  (IF j = -1 THEN <<>> ELSE << <<i, Ny - j>> >>) \o YieldFrom(m, i + 1)

\* list(diagonal_elements(matrix))
diagonal_elements(m) == YieldFrom(m, 0)

\* the matrices of the model: up to MaxDim rows and columns, a cell is empty
\* or holds 2 counts
DiagMatrices ==
    UNION { [1..nr -> [1..nc -> {0, 2}]] : nr \in 1..MaxDim, nc \in 1..MaxDim }

InitDiag ==
    /\ NoGates
    /\ matrix \in DiagMatrices
    /\ NoFillArgs
    /\ NoCutArgs
    /\ NoInterpArgs
    /\ NothingReturned
    /\ NoData2D

\* yielded = list(diagonal_elements(matrix))
CallDiagonalElements ==
    /\ done = ""
    /\ yielded' = diagonal_elements(matrix)
    /\ done' = "diagonal_elements"
    /\ UNCHANGED <<gateVars, matrix, fillVars, cutVars, interpVars,
                   matrix_out, error, dataVars>>

NextDiag == CallDiagonalElements

SpecDiag == InitDiag /\ [][NextDiag]_vars

---------------------------------------------------------------------------
(* Claims about diagonal_elements, checked under SpecDiag *)

\* column j holds the last non-zero element of the row
LastNonZero(row, j) ==
    /\ j \in 0..(Len(row) - 1)
    /\ At(row, j) # 0
    /\ \A c \in (j + 1)..(Len(row) - 1) : At(row, c) = 0

\* C15: diagonal_elements yields, for every row that holds a non-zero
\* element, exactly one pair (i, j) with j the column of the last non-zero
\* element of row i; an all-zero row yields nothing; the pairs come in
\* increasing row order.
C15_YieldsLastNonZero ==
    done = "diagonal_elements" =>
        /\ \A k \in 1..Len(yielded) :
              /\ yielded[k][1] \in 0..(Len(matrix) - 1)
              /\ LastNonZero(matrix[yielded[k][1] + 1], yielded[k][2])
        /\ \A i \in 0..(Len(matrix) - 1) :
              Cardinality({k \in 1..Len(yielded) : yielded[k][1] = i})
                 = IF \E c \in 0..(Len(matrix[i + 1]) - 1) : At(matrix[i + 1], c) # 0
                   THEN 1 ELSE 0
        /\ \A k \in 1..(Len(yielded) - 1) : yielded[k][1] < yielded[k + 1][1]

---------------------------------------------------------------------------
(* histogram2d.py: Data2D *)
(* A numpy array is a record of its dtype and its values.  A number is     *)
(* kept as its count of quarters (1.0 is 4, 0.5 is 2), which is exact for  *)
(* every value the model computes; an int64 array holds multiples of 4.    *)

\* longest event array given to Data2D
MaxEvents == 2

\* the dtype numpy gives the result of arithmetic on two dtypes
Promote(d1, d2) ==
    IF d1 = "float64" \/ d2 = "float64" THEN "float64" ELSE "int64"

\* the product of two numbers
Times(a, b) == (a * b) \div 4

\* what an assignment into an array of the dtype stores: a float written
\* into an int64 array loses its fraction (towards zero)
Cast(v, dtype) ==
    IF dtype = "float64" THEN v
    ELSE IF v >= 0 THEN (v \div 4) * 4 ELSE -(((-v) \div 4) * 4)

\* np.poly1d([1, 0])
DefaultCal == [dtype |-> "int64", c |-> <<4, 0>>]

\* the argument xcal=None / ycal=None
NoCal == [dtype |-> "None", c |-> <<>>]

\* p(arr) for p = np.poly1d([c[1], c[2]]): Horner's rule in the promoted dtype
PolyVal(p, arr) ==
    [dtype |-> Promote(p.dtype, arr.dtype),
     val   |-> [i \in 1..Len(arr.val) |-> Times(p.c[1], arr.val[i]) + p.c[2]]]

\* a[:, k] of a two-column array (k is 0 or 1)
Column(a, k) ==
    [dtype |-> a.dtype, val |-> [i \in 1..Len(a.val) |-> a.val[i][k + 1]]]

\* np.array([c0, c1]).T
Stack(c0, c1) ==
    [dtype |-> Promote(c0.dtype, c1.dtype),
     val   |-> [i \in 1..Len(c0.val) |-> <<c0.val[i], c1.val[i]>>]]

\* a[:, k] = col: the array keeps its dtype and casts what it is given
SetColumn(a, k, col) ==
    [dtype |-> a.dtype,
     val   |-> [i \in 1..Len(a.val) |->
                  [a.val[i] EXCEPT ![k + 1] = Cast(col.val[i], a.dtype)]]]

\* Data2D.Calibrate
Calibrate(raw, xcal, ycal) ==
    Stack(PolyVal(xcal, Column(raw, 0)), PolyVal(ycal, Column(raw, 1)))

\* Data2D.__init__ (x and y are one-dimensional in the model)
Data2DInit(x, y, xcal, ycal) ==
    IF Len(x.val) # Len(y.val)
    THEN [NotConstructed EXCEPT !.status = "raised"]
    ELSE LET raw == Stack(x, y)
             xc  == IF xcal = NoCal THEN DefaultCal ELSE xcal
             yc  == IF ycal = NoCal THEN DefaultCal ELSE ycal
         IN  [status |-> "built", raw |-> raw, size |-> Len(x.val),
              xcal |-> xc, ycal |-> yc, cal |-> Calibrate(raw, xc, yc)]

\* Data2D.SetCalX
SetCalX(d, xcal) ==
    [d EXCEPT !.xcal = xcal,
              !.cal  = SetColumn(d.cal, 0, PolyVal(xcal, Column(d.raw, 0)))]

\* Data2D.SetCalY
SetCalY(d, ycal) ==
    [d EXCEPT !.ycal = ycal,
              !.cal  = SetColumn(d.cal, 1, PolyVal(ycal, Column(d.raw, 1)))]

\* event arrays: raw channel numbers (int64: 1, 3) or floats (1.5, 3.0)
Events ==
    UNION { [dtype : {"int64"}, val : [1..n -> {4, 12}]]
              \cup [dtype : {"float64"}, val : [1..n -> {6, 12}]]
            : n \in 1..MaxEvents }

\* calibrations: x, 2 x + 1 (integer coefficients), 0.5 x, x + 0.25
Polys ==
    { [dtype |-> "int64",   c |-> <<4, 0>>],
      [dtype |-> "int64",   c |-> <<8, 4>>],
      [dtype |-> "float64", c |-> <<2, 0>>],
      [dtype |-> "float64", c |-> <<4, 1>>] }

InitData ==
    /\ NoGates
    /\ matrix = <<>>
    /\ NoFillArgs
    /\ NoCutArgs
    /\ NoInterpArgs
    /\ NothingReturned
    /\ NoData2D

\* data2d = Data2D(x, y, xcal, ycal)
NewData2D ==
    /\ data2d.status = "absent"
    /\ \E x \in Events, y \in Events, xcal \in Polys \cup {NoCal},
          ycal \in Polys \cup {NoCal} :
          data2d' = Data2DInit(x, y, xcal, ycal)
    /\ UNCHANGED <<gateVars, matVars>>

\* data2d.SetCalX(xcal)
CallSetCalX ==
    /\ data2d.status = "built"
    /\ \E xcal \in Polys : data2d' = SetCalX(data2d, xcal)
    /\ UNCHANGED <<gateVars, matVars>>

\* data2d.SetCalY(ycal)
CallSetCalY ==
    /\ data2d.status = "built"
    /\ \E ycal \in Polys : data2d' = SetCalY(data2d, ycal)
    /\ UNCHANGED <<gateVars, matVars>>

NextData == NewData2D \/ CallSetCalX \/ CallSetCalY

SpecData == InitData /\ [][NextData]_vars

---------------------------------------------------------------------------
(* Claims about Data2D, checked under SpecData *)

\* column k of cal holds what the calibration gives for column k of raw
Calibrated(d, k, p) ==
    Column(d.cal, k).val = PolyVal(p, Column(d.raw, k)).val

\* what a step may change: SetCalX leaves ycal and column 1 alone, SetCalY
\* leaves xcal and column 0 alone, and no step of a built object touches raw
SetCalFrame ==
    /\ CallSetCalX => /\ data2d'.ycal = data2d.ycal
                      /\ Column(data2d'.cal, 1) = Column(data2d.cal, 1)
    /\ CallSetCalY => /\ data2d'.xcal = data2d.xcal
                      /\ Column(data2d'.cal, 0) = Column(data2d.cal, 0)
    /\ data2d.status = "built" => data2d'.raw = data2d.raw

\* C16: after construction and after any sequence of SetCalX and SetCalY
\* calls, column 0 of cal equals the current xcal applied to column 0 of raw
\* and column 1 of cal equals the current ycal applied to column 1 of raw;
\* SetCalX leaves ycal and column 1 unchanged, SetCalY leaves xcal and
\* column 0 unchanged, and raw is never modified.
C16_CalFollowsCalibrations ==
    /\ [](data2d.status = "built" =>
             /\ Calibrated(data2d, 0, data2d.xcal)
             /\ Calibrated(data2d, 1, data2d.ycal))
    /\ [][SetCalFrame]_vars

=============================================================================
